---- MODULE Spec2Model ----
(***************************************************************************)
(* code-sherpa: chunk extraction (src/chunking/chunker.rs), whitespace     *)
(* preprocessing (src/chunking/preprocess.rs) and the size-bounded         *)
(* splitter (src/chunking/splitter.rs).                                    *)
(*                                                                         *)
(* Text is a sequence of one-byte characters; a byte offset of the Rust    *)
(* code is a 0-based index into that sequence.                             *)
(***************************************************************************)
EXTENDS Integers, Sequences, FiniteSets, TLC

VARIABLES
    pc,                   \* control position of the running call
    caller,               \* who called split_large_chunk / preprocess_code
    overflow_checks,      \* Cargo profile: TRUE = arithmetic overflow panics, FALSE = wraps
    source,               \* Chunker.source: the text of the file
    tree,                 \* Chunker.tree: the syntax tree of source, node 1 its root
    max_size,             \* Chunker.max_chunk_size, split_large_chunk's `max_size`
    overlap_percentage,   \* Chunker.overlap_percentage, split_large_chunk's `overlap_percentage`
    chunk,                \* split_large_chunk: the `chunk` argument
    effective_chunk_size, \* split_large_chunk: local `effective_chunk_size`
    current_pos,          \* split_large_chunk: local `current_pos`
    split_chunks,         \* split_large_chunk: local Vec `chunks`
    ranges,               \* history: the byte range [current_pos, end_pos) of each pushed fragment
    captures,             \* history: the captures the structured query gave for the root
    chunks,               \* extract_chunks: local Vec `chunks`
    final_chunks,         \* extract_chunks: local Vec `final_chunks`
    idx,                  \* extract_chunks: position of `for chunk in chunks` (1-based)
    lines,                \* extract_section_chunks: local `lines`
    i,                    \* extract_section_chunks: loop index `i`
    section_start,        \* extract_section_chunks: local `section_start`
    blank_line_count,     \* extract_section_chunks: local `blank_line_count`
    in_comment_block,     \* extract_section_chunks: local `in_comment_block`
    section_chunks,       \* extract_section_chunks: local Vec `chunks`
    result,               \* preprocess_code: the returned String
    again,                \* preprocess_code run on `result` taken as one leaf
    annotated_node,       \* add_chunk_context: the `node` argument (index in tree)
    annotated_parent,     \* add_chunk_context: the `parent_node` argument, 0 for None
    annotated,            \* add_chunk_context: `chunk` after the call
    points                \* the collection: the points stored, one for an id

configVars == <<overflow_checks, source, tree, max_size, overlap_percentage>>
splitVars == <<chunk, effective_chunk_size, current_pos, split_chunks, ranges>>
extractVars == <<captures, chunks, final_chunks, idx>>
sectionVars == <<lines, i, section_start, blank_line_count, in_comment_block, section_chunks>>
preVars == <<result, again>>

contextVars == <<annotated_node, annotated_parent, annotated>>
storageVars == <<points>>

vars == <<pc, caller, configVars, splitVars, extractVars, sectionVars, preVars,
          contextVars, storageVars>>

(***************************************************************************)
(* Bounds of the model.                                                    *)
(***************************************************************************)
MaxLen == 5         \* longest chunk content handed to the splitter
MaxSize == 4        \* largest max_size handed to the splitter
MaxFrags == 6       \* fragments the Vec can hold before the allocation fails

Chars == {"a", "\n", ";"}
Percents == {0, 10, 25, 50, 75, 100, 150}
StartLines == {0, 2}

\* usize arithmetic wraps modulo 2^64 when overflow checks are off; the model
\* keeps the wrap-around with a 16 bit word (every length of the model is
\* far below it, so only a genuine underflow or overflow wraps).
UsizeModulus == 65536

Min(a, b) == IF a <= b THEN a ELSE b

SeqsUpTo(S, n) == UNION {[1..k -> S] : k \in 0..n}

\* content[from..to] with 0-based half-open byte offsets
Slice(s, from, to) == SubSeq(s, from + 1, to)

(***************************************************************************)
(* The syntax tree (tree_sitter::Tree). A tree is a sequence of nodes,     *)
(* node 1 the root; a node has a kind, is named or anonymous, spans the    *)
(* bytes [start_byte, end_byte) of the source and lists its children.      *)
(***************************************************************************)
Node(kind, named, start_byte, end_byte, parent, children) ==
    [kind |-> kind, named |-> named, start_byte |-> start_byte,
     end_byte |-> end_byte, parent |-> parent, children |-> children]

\* the tree of a text without any syntactic unit: a root without children
TrivialTree(src) == <<Node("source_file", TRUE, 0, Len(src), 0, <<>>)>>

named_child_count(t, n) ==
    Cardinality({k \in 1..Len(t[n].children) : t[t[n].children[k]].named})

\* Node::start_position / end_position: row and column of a byte offset
Row(src, byte) == Cardinality({k \in 1..byte : src[k] = "\n"})

Column(src, byte) ==
    LET breaks == {k \in 1..byte : src[k] = "\n"}
    IN  IF breaks = {} THEN byte
        ELSE byte - (CHOOSE k \in breaks : \A j \in breaks : j <= k)

(***************************************************************************)
(* The preprocessor (src/chunking/preprocess.rs)                           *)
(***************************************************************************)
\* str::contains("comment") on the node kinds of the grammars
KindContainsComment(kind) ==
    kind \in {"comment", "line_comment", "block_comment", "doc_comment"}

\* node_text of preprocess.rs: the empty text for a range outside the source
node_text(node, src) ==
    IF node.end_byte <= Len(src)
    THEN Slice(src, node.start_byte, node.end_byte)
    ELSE <<>>

\* normalize_whitespace where a skipped space is forgotten: the space after
\* it is kept again
RECURSIVE NormalizeForgetful(_, _, _)
NormalizeForgetful(text, k, prev_char) ==
    IF k > Len(text) THEN <<>>
    ELSE IF text[k] = "\n"
        THEN <<text[k]>> \o NormalizeForgetful(text, k + 1, text[k])
    ELSE IF text[k] = " " /\ prev_char = " "
        THEN NormalizeForgetful(text, k + 1, "")
    ELSE <<text[k]>> \o NormalizeForgetful(text, k + 1, text[k])

normalize_whitespace_forgetful(text) == NormalizeForgetful(text, 1, " ")

\* lines 62-77: the loop over the characters text[from..to], entered with
\* prev_char. The body leaves prev_char equal to the character it ran on: a
\* pushed character is stored in it (lines 65 and 76) and a skipped one is a
\* space met with prev_char a space, so the second half of a range is
\* entered with the last character of the first.
RECURSIVE NormalizeRange(_, _, _, _)
NormalizeRange(text, from, to, prev_char) ==
    IF from > to THEN <<>>
    ELSE IF from = to
        THEN IF text[from] = "\n" THEN <<text[from]>>
             ELSE IF text[from] = " " /\ prev_char = " " THEN <<>>
             ELSE <<text[from]>>
    ELSE NormalizeRange(text, from, (from + to) \div 2, prev_char)
         \o NormalizeRange(text, (from + to) \div 2 + 1, to, text[(from + to) \div 2])

normalize_whitespace(text) == NormalizeRange(text, 1, Len(text), " ")

RECURSIVE preprocess_node(_, _, _)
RECURSIVE PreprocessChildren(_, _, _)

\* lines 31-36: the children of a node, the first and then each next sibling
PreprocessChildren(t, children, src) ==
    IF children = <<>> THEN <<>>
    ELSE preprocess_node(t, Head(children), src) \o PreprocessChildren(t, Tail(children), src)

preprocess_node(t, n, src) ==
    IF KindContainsComment(t[n].kind) THEN <<>>
    ELSE IF named_child_count(t, n) = 0
        THEN normalize_whitespace(node_text(t[n], src))
    ELSE PreprocessChildren(t, t[n].children, src)

preprocess_code(t, n, src) == preprocess_node(t, n, src)

(***************************************************************************)
(* str::find: 0-based byte offset of the first occurrence, -1 for None.    *)
(***************************************************************************)
FindChar(s, c) ==
    LET hits == {n \in 1..Len(s) : s[n] = c}
    IN  IF hits = {} THEN -1
        ELSE (CHOOSE n \in hits : \A j \in hits : n <= j) - 1

FindBlankLine(s) ==
    LET hits == {n \in 1..(Len(s) - 1) : s[n] = "\n" /\ s[n + 1] = "\n"}
    IN  IF hits = {} THEN -1
        ELSE (CHOOSE n \in hits : \A j \in hits : n <= j) - 1

count_lines(content) == Cardinality({n \in 1..Len(content) : content[n] = "\n"})

\* find_semantic_boundary searching to the end of the content: max_pos is
\* not applied to the search range
find_semantic_boundary_unbounded(content, target_pos, max_pos) ==
    LET end_pos == Min(target_pos, Len(content))
        search_range == Slice(content, end_pos, Len(content))
    IN  IF FindBlankLine(search_range) >= 0
            THEN end_pos + FindBlankLine(search_range) + 2
        ELSE IF FindChar(search_range, "\n") >= 0
            THEN end_pos + FindChar(search_range, "\n") + 1
        ELSE IF FindChar(search_range, ";") >= 0
            THEN end_pos + FindChar(search_range, ";") + 1
        ELSE IF FindChar(search_range, "}") >= 0
            THEN end_pos + FindChar(search_range, "}") + 1
        ELSE IF FindChar(search_range, "{") >= 0
            THEN end_pos + FindChar(search_range, "{") + 1
        ELSE IF FindChar(search_range, " ") >= 0
            THEN end_pos + FindChar(search_range, " ") + 1
        ELSE end_pos

\* find_semantic_boundary taking the first statement end of any kind: the
\* three characters are searched together, not one after the other
find_semantic_boundary_first_of_any(content, target_pos, max_pos) ==
    LET end_pos0 == Min(target_pos, Len(content))
        max_pos1 == Min(max_pos, Len(content))
        end_pos == Min(end_pos0, max_pos1)
        search_range == Slice(content, end_pos, max_pos1)
        ends == {n \in 1..Len(search_range) : search_range[n] \in {";", "}", "{"}}
    IN  IF FindBlankLine(search_range) >= 0
            THEN end_pos + FindBlankLine(search_range) + 2
        ELSE IF FindChar(search_range, "\n") >= 0
            THEN end_pos + FindChar(search_range, "\n") + 1
        ELSE IF ends # {}
            THEN end_pos + (CHOOSE n \in ends : \A j \in ends : n <= j)
        ELSE IF FindChar(search_range, " ") >= 0
            THEN end_pos + FindChar(search_range, " ") + 1
        ELSE end_pos

(***************************************************************************)
(* find_semantic_boundary(content, target_pos, max_pos)                    *)
(***************************************************************************)
find_semantic_boundary(content, target_pos, max_pos) ==
    LET end_pos0 == Min(target_pos, Len(content))
        max_pos1 == Min(max_pos, Len(content))
        end_pos == Min(end_pos0, max_pos1)
        search_range == Slice(content, end_pos, max_pos1)
    IN  IF FindBlankLine(search_range) >= 0
            THEN end_pos + FindBlankLine(search_range) + 2
        ELSE IF FindChar(search_range, "\n") >= 0
            THEN end_pos + FindChar(search_range, "\n") + 1
        ELSE IF FindChar(search_range, ";") >= 0
            THEN end_pos + FindChar(search_range, ";") + 1
        ELSE IF FindChar(search_range, "}") >= 0
            THEN end_pos + FindChar(search_range, "}") + 1
        ELSE IF FindChar(search_range, "{") >= 0
            THEN end_pos + FindChar(search_range, "{") + 1
        ELSE IF FindChar(search_range, " ") >= 0
            THEN end_pos + FindChar(search_range, " ") + 1
        ELSE end_pos

(***************************************************************************)
(* CodeChunk (src/chunking/types.rs)                                       *)
(***************************************************************************)
CodeChunk(content, node_type, start_line, end_line, path, language) ==
    [content |-> content, node_type |-> node_type, start_line |-> start_line,
     end_line |-> end_line, path |-> path, language |-> language]


\* overlap_size rounded up instead of down
overlap_size_rounded_up == (max_size * overlap_percentage + 99) \div 100

\* line 16
overlap_size == (max_size * overlap_percentage) \div 100

\* Fragment with the line offset counted in the fragment, not in the prefix
Fragment_offset_in_fragment(c, pos, end_pos) ==
    LET split_content == Slice(c.content, pos, end_pos)
        start_line_offset == count_lines(split_content)
        chunk_lines == count_lines(split_content)
    IN  CodeChunk(split_content,
                  c.node_type \o <<"_part">>,
                  c.start_line + start_line_offset,
                  c.start_line + start_line_offset + chunk_lines,
                  c.path,
                  c.language)

\* lines 27-41
\* the fragment pushed for the byte range [current_pos, end_pos)
Fragment(c, pos, end_pos) ==
    LET split_content == Slice(c.content, pos, end_pos)
        start_line_offset == count_lines(Slice(c.content, 0, pos))
        chunk_lines == count_lines(split_content)
    IN  CodeChunk(split_content,
                  c.node_type \o <<"_part">>,
                  c.start_line + start_line_offset,
                  c.start_line + start_line_offset + chunk_lines,
                  c.path,
                  c.language)

(***************************************************************************)
(* split_large_chunk(chunk, max_size, overlap_percentage)                  *)
(*   pc = "split_entry"   the call has been made (line 11)                 *)
(*   pc = "split_loop"    at the head of the while loop (line 23)          *)
(*   pc = "split_return"  the call has returned split_chunks               *)
(*   pc = "panic"         the thread panicked (overflow check, bad slice)  *)
(*   pc = "abort"         the process aborted: the Vec could not grow      *)
(***************************************************************************)

\* the early return's test with < for <=
Fits_strict(c, size) == Len(c.content) < size

\* line 11: the test of the early return
Fits(c, size) == Len(c.content) <= size

\* lines 11-13: a chunk that fits is returned as it is
SplitFits ==
    /\ pc = "split_entry"
    /\ Fits(chunk, max_size)
    /\ split_chunks' = <<chunk>>
    /\ pc' = "split_return"
    /\ UNCHANGED <<caller, configVars, chunk, effective_chunk_size, current_pos, ranges,
                   extractVars, sectionVars, preVars, contextVars, storageVars>>

\* lines 15-21: overlap_size, effective_chunk_size, the empty Vec, current_pos = 0
SplitBegin ==
    /\ pc = "split_entry"
    /\ ~Fits(chunk, max_size)
    /\ IF overlap_size <= max_size
         THEN /\ effective_chunk_size' = max_size - overlap_size
              /\ pc' = "split_loop"
         ELSE IF overflow_checks
         THEN /\ pc' = "panic"
              /\ UNCHANGED effective_chunk_size
         ELSE /\ effective_chunk_size' = (max_size - overlap_size + UsizeModulus) % UsizeModulus
              /\ pc' = "split_loop"
    /\ split_chunks' = <<>>
    /\ ranges' = <<>>
    /\ current_pos' = 0
    /\ UNCHANGED <<caller, configVars, chunk, extractVars, sectionVars, preVars, contextVars, storageVars>>

\* lines 24-48: one pass through the body of the while loop
SplitIterate ==
    /\ pc = "split_loop"
    /\ current_pos < Len(chunk.content)
    /\ LET target_raw == current_pos + effective_chunk_size
           target_pos == target_raw % UsizeModulus
           end_pos == find_semantic_boundary(chunk.content, target_pos, max_size)
       IN  IF target_raw >= UsizeModulus /\ overflow_checks
             THEN \* line 25: attempt to add with overflow
                  /\ pc' = "panic"
                  /\ UNCHANGED <<current_pos, split_chunks, ranges>>
           ELSE IF current_pos > end_pos
             THEN \* line 28: slice index starts after its end
                  /\ pc' = "panic"
                  /\ UNCHANGED <<current_pos, split_chunks, ranges>>
           ELSE IF Len(split_chunks) >= MaxFrags
             THEN \* line 34: the push cannot allocate
                  /\ pc' = "abort"
                  /\ UNCHANGED <<current_pos, split_chunks, ranges>>
           ELSE /\ split_chunks' = Append(split_chunks, Fragment(chunk, current_pos, end_pos))
                /\ ranges' = Append(ranges, <<current_pos, end_pos>>)
                /\ IF end_pos >= Len(chunk.content)
                     THEN /\ current_pos' = Len(chunk.content)
                          /\ pc' = "split_loop"
                   ELSE IF end_pos >= overlap_size
                     THEN /\ current_pos' = end_pos - overlap_size
                          /\ pc' = "split_loop"
                   ELSE IF overflow_checks
                     THEN \* line 47: attempt to subtract with overflow
                          /\ pc' = "panic"
                          /\ UNCHANGED current_pos
                   ELSE /\ current_pos' = (end_pos - overlap_size + UsizeModulus) % UsizeModulus
                        /\ pc' = "split_loop"
    /\ UNCHANGED <<caller, configVars, chunk, effective_chunk_size,
                   extractVars, sectionVars, preVars, contextVars, storageVars>>

\* lines 23, 51: the loop condition fails and the Vec is returned
SplitExit ==
    /\ pc = "split_loop"
    /\ current_pos >= Len(chunk.content)
    /\ pc' = "split_return"
    /\ UNCHANGED <<caller, configVars, splitVars, extractVars, sectionVars, preVars, contextVars, storageVars>>

(***************************************************************************)
(* Text helpers of the chunker: str::lines, str::trim, starts_with,        *)
(* ends_with, [&str]::join.                                                *)
(***************************************************************************)
\* str::split on line feeds, halving the text at the feed nearest its middle
RECURSIVE SplitOnFeeds(_)
SplitOnFeeds(src) ==
    LET feeds == {k \in 1..Len(src) : src[k] = "\n"}
        mid == (Len(src) + 1) \div 2
        dist(f) == IF f >= mid THEN f - mid ELSE mid - f
        m == CHOOSE f \in feeds :
                 \A g \in feeds : dist(f) < dist(g) \/ (dist(f) = dist(g) /\ f <= g)
    IN  IF feeds = {} THEN <<src>>
        ELSE SplitOnFeeds(SubSeq(src, 1, m - 1))
             \o SplitOnFeeds(SubSeq(src, m + 1, Len(src)))

\* str::lines: the text between line feeds; a final line feed ends the last
\* line and starts no empty one
Lines(src) ==
    LET pieces == SplitOnFeeds(src)
    IN  IF pieces[Len(pieces)] = <<>> THEN SubSeq(pieces, 1, Len(pieces) - 1)
        ELSE pieces

IsWhitespace(c) == c \in {" ", "\t", "\n", "\r"}

\* str::trim: without the whitespace at both ends
Trim(s) ==
    LET solid == {k \in 1..Len(s) : ~IsWhitespace(s[k])}
    IN  IF solid = {} THEN <<>>
        ELSE SubSeq(s, CHOOSE k \in solid : \A j \in solid : k <= j,
                       CHOOSE k \in solid : \A j \in solid : j <= k)

StartsWith(s, prefix) == Len(s) >= Len(prefix) /\ SubSeq(s, 1, Len(prefix)) = prefix

EndsWith(s, suffix) ==
    Len(s) >= Len(suffix) /\ SubSeq(s, Len(s) - Len(suffix) + 1, Len(s)) = suffix

\* [&str]::join with a separator of one character, joining the halves
RECURSIVE Join(_, _)
Join(ls, sep) ==
    IF ls = <<>> THEN <<>>
    ELSE IF Len(ls) = 1 THEN ls[1]
    ELSE Join(SubSeq(ls, 1, Len(ls) \div 2), sep) \o <<sep>>
         \o Join(SubSeq(ls, Len(ls) \div 2 + 1, Len(ls)), sep)

(***************************************************************************)
(* The context annotator (src/chunking/splitter.rs, lines 97-155)          *)
(***************************************************************************)
\* the name patterns of find_node_name on the node kinds of the grammars:
\* "identifier", "name", or a kind ending in "_name" or "_identifier"
KindIsName(kind) ==
    kind \in {"identifier", "name", "type_identifier", "field_identifier",
              "property_identifier", "field_name", "package_identifier"}

\* Node::kind() as text
KindText(kind) ==
    IF kind = "source_file" THEN <<"s", "o", "u", "r", "c", "e", "_", "f", "i", "l", "e">>
    ELSE IF kind = "declaration_list" THEN <<"d", "e", "c", "l", "a", "r", "a", "t", "i", "o", "n", "_", "l", "i", "s", "t">>
    ELSE IF kind = "block" THEN <<"b", "l", "o", "c", "k">>
    ELSE IF kind = "impl_item" THEN <<"i", "m", "p", "l", "_", "i", "t", "e", "m">>
    ELSE IF kind = "variable_declarator" THEN <<"v", "a", "r", "i", "a", "b", "l", "e", "_", "d", "e", "c", "l", "a", "r", "a", "t", "o", "r">>
    ELSE <<kind>>

\* find_node_name returning the last named child with a name kind
find_node_name_last(t, n) ==
    LET hits == {k \in 1..Len(t[n].children) :
                    /\ t[t[n].children[k]].named
                    /\ KindIsName(t[t[n].children[k]].kind)}
    IN  IF hits = {} THEN 0
        ELSE t[n].children[CHOOSE k \in hits : \A j \in hits : j <= k]

\* find_node_name: the first named child with a name kind, 0 for None
find_node_name(t, n) ==
    LET hits == {k \in 1..Len(t[n].children) :
                    /\ t[t[n].children[k]].named
                    /\ KindIsName(t[t[n].children[k]].kind)}
    IN  IF hits = {} THEN 0
        ELSE t[n].children[CHOOSE k \in hits : \A j \in hits : k <= j]

\* node_text of splitter.rs: Some(text) as <<text>>, None as <<>>
splitter_node_text(node, src) ==
    IF node.end_byte <= Len(src)
    THEN <<Slice(src, node.start_byte, node.end_byte)>>
    ELSE <<>>

\* add_chunk_context(chunk, node, source, parent_node); parent 0 is None
add_chunk_context(c, t, n, src, parent) ==
    LET name_node == find_node_name(t, n)
        name == IF name_node = 0 THEN <<>> ELSE splitter_node_text(t[name_node], src)
        node_type == IF name = <<>> THEN c.node_type
                     ELSE c.node_type \o <<":">> \o name[1]
        parent_name_node == IF parent = 0 THEN 0 ELSE find_node_name(t, parent)
        parent_name == IF parent_name_node = 0 THEN <<>>
                       ELSE splitter_node_text(t[parent_name_node], src)
        content == IF parent_name = <<>> THEN c.content
                   ELSE <<"/", "/", " ", "I", "n", " ">> \o KindText(t[parent].kind)
                        \o <<":", " ">> \o parent_name[1] \o <<"\n">> \o c.content
    IN  CodeChunk(content, node_type, c.start_line, c.end_line, c.path, c.language)

(***************************************************************************)
(* The chunk extractor (src/chunking/chunker.rs)                           *)
(***************************************************************************)
DEFAULT_MAX_CHUNK_SIZE == 4096
DEFAULT_OVERLAP_PERCENTAGE == 10

FilePath == "a.rs"
LanguageName == "Rust"

\* the kinds the Rust query captures (lines 98-110): function_item (as
\* @function, @impl_method and @trait_method), struct_item, enum_item,
\* mod_item and macro_definition; impl_item and trait_item carry no capture
CapturedKinds ==
    {"function_item", "struct_item", "enum_item", "mod_item", "macro_definition"}

\* the kinds the generic query captures (lines 200-204)
GeneralKinds == {"block", "statement", "declaration"}

RECURSIVE InSubtree(_, _, _)
InSubtree(t, top, n) ==
    IF n = top THEN TRUE
    ELSE IF n = 0 THEN FALSE
    ELSE InSubtree(t, top, t[n].parent)

\* What QueryCursor::matches may hand out for a query run on node `top`:
\* the matcher belongs to the parsing library, so every sequence of at most
\* MaxCaptures captures of nodes under `top` with a captured kind.
MaxCaptures == 3

CaptureSeqs(t, top, kindset) ==
    SeqsUpTo({n \in 1..Len(t) : InSubtree(t, top, n) /\ t[n].kind \in kindset}, MaxCaptures)

start_row(t, n, src) == Row(src, t[n].start_byte)
end_row(t, n, src) == Row(src, t[n].end_byte)

\* lines 156-157: a capture on one line and fewer than 3 columns wide
VerySmall(t, n, src) ==
    /\ start_row(t, n, src) = end_row(t, n, src)
    /\ Column(src, t[n].end_byte) - Column(src, t[n].start_byte) < 3

\* lines 169-178: the chunk of a captured node, annotated
StructuredChunk(t, n, src) ==
    add_chunk_context(
        CodeChunk(preprocess_code(t, n, src), <<t[n].kind>>,
                  start_row(t, n, src), end_row(t, n, src), FilePath, LanguageName),
        t, n, src, t[n].parent)

\* extract_structured_chunks, lines 150-182, for the captures `caps` of the
\* query. Line 165 calls extract_structured_chunks on an impl_item or
\* trait_item capture and drops the Vec it returns, so nothing of that call
\* reaches `chunks`: the chunks are those of the captures alone.
RECURSIVE extract_structured_chunks(_, _, _)
extract_structured_chunks(t, src, caps) ==
    IF caps = <<>> THEN <<>>
    ELSE IF VerySmall(t, Head(caps), src)
        THEN extract_structured_chunks(t, src, Tail(caps))
    ELSE <<StructuredChunk(t, Head(caps), src)>>
         \o extract_structured_chunks(t, src, Tail(caps))

\* extract_general_chunks with a generic query that compiled, lines 211-231
RECURSIVE extract_general_chunks(_, _, _)
extract_general_chunks(t, src, caps) ==
    IF caps = <<>> THEN <<>>
    ELSE IF end_row(t, Head(caps), src) - start_row(t, Head(caps), src) < 3
        THEN extract_general_chunks(t, src, Tail(caps))
    ELSE <<CodeChunk(preprocess_code(t, Head(caps), src), <<t[Head(caps)].kind>>,
                     start_row(t, Head(caps), src), end_row(t, Head(caps), src),
                     FilePath, LanguageName)>>
         \o extract_general_chunks(t, src, Tail(caps))

\* lines 58-71 without the pushed chunk: the fallback is left out
WithWholeFile_missing(cs, t, src) == cs

\* lines 58-71: the whole file as one chunk when nothing was found
WithWholeFile(cs, t, src) ==
    IF cs = <<>> /\ src # <<>>
    THEN <<CodeChunk(preprocess_code(t, 1, src), <<"file">>, 0, end_row(t, 1, src),
                     FilePath, LanguageName)>>
    ELSE cs

\* a section whose end_line is counted from the section's own first line
WithSection_end_in_section(cs, ls, from, to, end_line) ==
    LET section_content == Join(SubSeq(ls, from + 1, to), "\n")
    IN  IF Trim(section_content) # <<>>
        THEN Append(cs, CodeChunk(section_content, <<"section">>, from, to - from,
                                  FilePath, LanguageName))
        ELSE cs

\* lines 283-293 and 301-311: the section of the lines [from, to) with its
\* end_line, pushed unless it is blank
WithSection(cs, ls, from, to, end_line) ==
    LET section_content == Join(SubSeq(ls, from + 1, to), "\n")
    IN  IF Trim(section_content) # <<>>
        THEN Append(cs, CodeChunk(section_content, <<"section">>, from, end_line,
                                  FilePath, LanguageName))
        ELSE cs

(***************************************************************************)
(* Values of the locals of a call that is not running.                     *)
(***************************************************************************)
NoChunk == CodeChunk(<<>>, <<>>, 0, 0, "", "")

SplitIdle ==
    /\ effective_chunk_size = 0
    /\ current_pos = 0
    /\ split_chunks = <<>>
    /\ ranges = <<>>

ExtractIdle ==
    /\ captures = <<>>
    /\ chunks = <<>>
    /\ final_chunks = <<>>
    /\ idx = 0

SectionIdle ==
    /\ lines = <<>>
    /\ i = 0
    /\ section_start = 0
    /\ blank_line_count = 0
    /\ in_comment_block = FALSE
    /\ section_chunks = <<>>

PreIdle ==
    /\ result = <<>>
    /\ again = <<>>

ContextIdle ==
    /\ annotated_node = 0
    /\ annotated_parent = 0
    /\ annotated = NoChunk

\* an empty collection
StorageIdle == points = {}

(***************************************************************************)
(* The splitter called on its own: every chunk, size and percentage of     *)
(* the bounded input sets.                                                 *)
(***************************************************************************)
InputChunks ==
    {CodeChunk(c, <<"function_item">>, l, l + count_lines(c), "a.rs", "Rust") :
        c \in SeqsUpTo(Chars, MaxLen), l \in StartLines}

SplitInit ==
    /\ pc = "split_entry"
    /\ caller = "direct"
    /\ overflow_checks \in BOOLEAN
    /\ chunk \in InputChunks
    /\ max_size \in 1..MaxSize
    /\ overlap_percentage \in Percents
    /\ SplitIdle
    /\ source = <<>>
    /\ tree = TrivialTree(<<>>)
    /\ ExtractIdle
    /\ SectionIdle
    /\ PreIdle
    /\ ContextIdle
    /\ StorageIdle

SplitNext == SplitFits \/ SplitBegin \/ SplitIterate \/ SplitExit

SplitSpec == SplitInit /\ [][SplitNext]_vars

\* split_large_chunk on contents that hold every kind of boundary character
MaxWindow == 5
WindowChars == {"a", "\n", ";", "}", "{", " "}

BoundaryInit ==
    /\ pc = "split_entry"
    /\ caller = "direct"
    /\ overflow_checks = FALSE
    /\ chunk \in {CodeChunk(c, <<"function_item">>, 0, count_lines(c), "a.rs", "Rust") :
                     c \in SeqsUpTo(WindowChars, MaxWindow)}
    /\ max_size \in (MaxSize - 1)..MaxSize
    /\ overlap_percentage \in {0, 100}
    /\ SplitIdle
    /\ source = <<>>
    /\ tree = TrivialTree(<<>>)
    /\ ExtractIdle
    /\ SectionIdle
    /\ PreIdle
    /\ ContextIdle
    /\ StorageIdle

BoundarySpec == BoundaryInit /\ [][SplitNext]_vars

(***************************************************************************)
(* The preprocessor called on its own: preprocess_code on a tree over a    *)
(* text, then once more on its own output taken as a single leaf.          *)
(***************************************************************************)
MaxText == 4        \* longest text handed to the preprocessor

TextChars == {"a", " ", "\n"}
LeafKinds == {"string_literal", "line_comment"}

\* a root with two named leaves that share the text at byte p
TwoLeaves(src, p, kind1, kind2) ==
    <<Node("source_file", TRUE, 0, Len(src), 0, <<2, 3>>),
      Node(kind1, TRUE, 0, p, 1, <<>>),
      Node(kind2, TRUE, p, Len(src), 1, <<>>)>>

TextTrees(src) ==
    {TrivialTree(src)} \cup
    {TwoLeaves(src, p, k1, k2) : p \in 0..Len(src), k1 \in LeafKinds, k2 \in LeafKinds}

PreInit ==
    /\ pc = "pre_entry"
    /\ caller = "direct"
    /\ overflow_checks = TRUE
    /\ source \in SeqsUpTo(TextChars, MaxText)
    /\ tree \in TextTrees(source)
    /\ max_size = 0
    /\ overlap_percentage = 0
    /\ chunk = NoChunk
    /\ SplitIdle
    /\ ExtractIdle
    /\ SectionIdle
    /\ PreIdle
    /\ ContextIdle
    /\ StorageIdle

\* preprocess_code(&root, source)
PreprocessCall ==
    /\ pc = "pre_entry"
    /\ result' = preprocess_code(tree, 1, source)
    /\ pc' = "pre_return"
    /\ UNCHANGED <<caller, configVars, splitVars, extractVars, sectionVars, again,
                   contextVars, storageVars>>

\* preprocess_code on the text it returned
PreprocessAgain ==
    /\ pc = "pre_return"
    /\ again' = preprocess_code(TrivialTree(result), 1, result)
    /\ pc' = "pre_again"
    /\ UNCHANGED <<caller, configVars, splitVars, extractVars, sectionVars, result,
                   contextVars, storageVars>>

PreNext == PreprocessCall \/ PreprocessAgain

PreSpec == PreInit /\ [][PreNext]_vars

(***************************************************************************)
(* extract_chunks (src/chunking/chunker.rs, lines 43-90)                   *)
(*   pc = "extract_entry"  the call has been made                          *)
(*   pc = "general"        after the structured tier (line 53)             *)
(*   pc = "section_loop"   in the loop of extract_section_chunks           *)
(*   pc = "whole_file"     after the generic tier (line 58)                *)
(*   pc = "split_phase"    in the loop over `chunks` (line 75)             *)
(*   pc = "done"           the call has returned final_chunks              *)
(***************************************************************************)

\* lines 48-51, Query::new gave Ok: the chunks of the captures
StructuredTier ==
    /\ pc = "extract_entry"
    /\ \E caps \in CaptureSeqs(tree, 1, CapturedKinds) :
          /\ captures' = caps
          /\ chunks' = extract_structured_chunks(tree, source, caps)
    /\ pc' = "general"
    /\ UNCHANGED <<caller, configVars, splitVars, final_chunks, idx, sectionVars, preVars, contextVars, storageVars>>

\* lines 48-51, Query::new gave Err (lines 184-189): no chunks
StructuredQueryFails ==
    /\ pc = "extract_entry"
    /\ chunks' = <<>>
    /\ pc' = "general"
    /\ UNCHANGED <<caller, configVars, splitVars, captures, final_chunks, idx,
                   sectionVars, preVars, contextVars, storageVars>>

\* line 53: the structured tier found chunks, the generic tier is not run
GeneralSkipped ==
    /\ pc = "general"
    /\ chunks # <<>>
    /\ pc' = "whole_file"
    /\ UNCHANGED <<caller, configVars, splitVars, extractVars, sectionVars, preVars, contextVars, storageVars>>

\* the generic tier run whatever the structured tier found
GeneralTier_after_any ==
    /\ pc = "general"
    /\ \E caps \in CaptureSeqs(tree, 1, GeneralKinds) :
          chunks' = chunks \o extract_general_chunks(tree, source, caps)
    /\ pc' = "whole_file"
    /\ UNCHANGED <<caller, configVars, splitVars, captures, final_chunks, idx,
                   sectionVars, preVars, contextVars, storageVars>>

\* lines 53-55, the generic query compiled (lines 207-232)
GeneralTier ==
    /\ pc = "general"
    /\ chunks = <<>>
    /\ \E caps \in CaptureSeqs(tree, 1, GeneralKinds) :
          chunks' = extract_general_chunks(tree, source, caps)
    /\ pc' = "whole_file"
    /\ UNCHANGED <<caller, configVars, splitVars, captures, final_chunks, idx,
                   sectionVars, preVars, contextVars, storageVars>>

\* lines 234-240 and 248-258: the generic query did not compile,
\* extract_section_chunks starts (and returns at once without lines)
SectionBegin ==
    /\ pc = "general"
    /\ chunks = <<>>
    /\ lines' = Lines(source)
    /\ i' = 0
    /\ section_start' = 0
    /\ blank_line_count' = 0
    /\ in_comment_block' = FALSE
    /\ section_chunks' = <<>>
    /\ pc' = IF Lines(source) = <<>> THEN "whole_file" ELSE "section_loop"
    /\ UNCHANGED <<caller, configVars, splitVars, extractVars, preVars, contextVars, storageVars>>

\* the loop body counting every blank line, inside a block comment or not
SectionLine_counts_in_comment ==
    /\ pc = "section_loop"
    /\ i < Len(lines)
    /\ LET trimmed == Trim(lines[i + 1])
           opened == StartsWith(trimmed, <<"/", "*">>) \/ in_comment_block
           counted == IF trimmed = <<>> THEN blank_line_count + 1 ELSE 0
       IN  IF EndsWith(trimmed, <<"*", "/">>)
             THEN /\ in_comment_block' = FALSE
                  /\ blank_line_count' = 0
                  /\ UNCHANGED <<section_start, section_chunks>>
           ELSE IF (counted >= 2 /\ i - section_start > 5) \/ i - section_start >= 100
             THEN /\ in_comment_block' = opened
                  /\ section_chunks' = WithSection(section_chunks, lines, section_start, i, i)
                  /\ section_start' = i + 1
                  /\ blank_line_count' = 0
           ELSE /\ in_comment_block' = opened
                /\ blank_line_count' = counted
                /\ UNCHANGED <<section_start, section_chunks>>
    /\ i' = i + 1
    /\ UNCHANGED <<pc, caller, configVars, splitVars, extractVars, lines, preVars, contextVars, storageVars>>

\* lines 261-297: the loop body for the line with index i
SectionLine ==
    /\ pc = "section_loop"
    /\ i < Len(lines)
    /\ LET trimmed == Trim(lines[i + 1])
           opened == StartsWith(trimmed, <<"/", "*">>) \/ in_comment_block
           counted == IF trimmed = <<>> /\ ~opened THEN blank_line_count + 1 ELSE 0
       IN  IF EndsWith(trimmed, <<"*", "/">>)
             THEN /\ in_comment_block' = FALSE
                  /\ blank_line_count' = 0
                  /\ UNCHANGED <<section_start, section_chunks>>
           ELSE IF (counted >= 2 /\ i - section_start > 5) \/ i - section_start >= 100
             THEN /\ in_comment_block' = opened
                  /\ section_chunks' = WithSection(section_chunks, lines, section_start, i, i)
                  /\ section_start' = i + 1
                  /\ blank_line_count' = 0
           ELSE /\ in_comment_block' = opened
                /\ blank_line_count' = counted
                /\ UNCHANGED <<section_start, section_chunks>>
    /\ i' = i + 1
    /\ UNCHANGED <<pc, caller, configVars, splitVars, extractVars, lines, preVars, contextVars, storageVars>>

\* lines 299-314, 240 and 54: the last section; the sections become `chunks`
SectionEnd ==
    /\ pc = "section_loop"
    /\ i = Len(lines)
    /\ section_chunks' =
          IF section_start < Len(lines)
          THEN WithSection(section_chunks, lines, section_start, Len(lines), Len(lines))
          ELSE section_chunks
    /\ chunks' = chunks \o section_chunks'
    /\ pc' = "whole_file"
    /\ UNCHANGED <<caller, configVars, splitVars, captures, final_chunks, idx,
                   lines, i, section_start, blank_line_count, in_comment_block, preVars, contextVars, storageVars>>

\* lines 57-74: the whole-file chunk, then the empty final_chunks
WholeFile ==
    /\ pc = "whole_file"
    /\ chunks' = WithWholeFile(chunks, tree, source)
    /\ final_chunks' = <<>>
    /\ idx' = 1
    /\ pc' = "split_phase"
    /\ UNCHANGED <<caller, configVars, splitVars, captures, sectionVars, preVars, contextVars, storageVars>>

\* lines 79-81: a chunk that fits is pushed as it is
KeepChunk ==
    /\ pc = "split_phase"
    /\ idx <= Len(chunks)
    /\ ~(Len(chunks[idx].content) > max_size)
    /\ final_chunks' = Append(final_chunks, chunks[idx])
    /\ idx' = idx + 1
    /\ UNCHANGED <<pc, caller, configVars, splitVars, captures, chunks, sectionVars, preVars, contextVars, storageVars>>

\* lines 76-77: split_large_chunk is called on a chunk that does not fit
CallSplit ==
    /\ pc = "split_phase"
    /\ idx <= Len(chunks)
    /\ Len(chunks[idx].content) > max_size
    /\ chunk' = chunks[idx]
    /\ effective_chunk_size' = 0
    /\ current_pos' = 0
    /\ split_chunks' = <<>>
    /\ ranges' = <<>>
    /\ caller' = "extract_chunks"
    /\ pc' = "split_entry"
    /\ UNCHANGED <<configVars, extractVars, sectionVars, preVars, contextVars, storageVars>>

\* line 78: the fragments split_large_chunk returned are appended
ExtendWithSplit ==
    /\ pc = "split_return"
    /\ caller = "extract_chunks"
    /\ final_chunks' = final_chunks \o split_chunks
    /\ idx' = idx + 1
    /\ pc' = "split_phase"
    /\ UNCHANGED <<caller, configVars, splitVars, captures, chunks, sectionVars, preVars, contextVars, storageVars>>

\* lines 84-89: final_chunks is returned
ExtractReturn ==
    /\ pc = "split_phase"
    /\ idx > Len(chunks)
    /\ pc' = "done"
    /\ UNCHANGED <<caller, configVars, splitVars, extractVars, sectionVars, preVars, contextVars, storageVars>>

(***************************************************************************)
(* The files extract_chunks is run on. Sources with units are written with *)
(* one character for a keyword ("f" for fn, "i" for impl, "s" for struct). *)
(***************************************************************************)
\* impl T { fn a{;} fn b{;} }: a container with two methods
ImplSource == <<"i", " ", "T", "{", "\n", "f", " ", "a", "{", ";", "}", "\n", "f", " ", "b", "{", ";", "}", "\n", "}", "\n">>

ImplTree ==
    <<Node("source_file", TRUE, 0, 21, 0, <<2>>),
      Node("impl_item", TRUE, 0, 20, 1, <<3, 4, 5>>),
      Node("impl", FALSE, 0, 1, 2, <<>>),
      Node("type_identifier", TRUE, 2, 3, 2, <<>>),
      Node("declaration_list", TRUE, 3, 20, 2, <<6, 7, 8, 9>>),
      Node("{", FALSE, 3, 4, 5, <<>>),
      Node("function_item", TRUE, 5, 11, 5, <<10, 11, 12>>),
      Node("function_item", TRUE, 12, 18, 5, <<13, 14, 15>>),
      Node("}", FALSE, 19, 20, 5, <<>>),
      Node("fn", FALSE, 5, 6, 7, <<>>),
      Node("identifier", TRUE, 7, 8, 7, <<>>),
      Node("block", TRUE, 8, 11, 7, <<>>),
      Node("fn", FALSE, 12, 13, 8, <<>>),
      Node("identifier", TRUE, 14, 15, 8, <<>>),
      Node("block", TRUE, 15, 18, 8, <<>>)>>

\* fn a { ; ; } over four lines
FnSource == <<"f", " ", "a", "{", "\n", ";", "\n", ";", "\n", "}">>

FnTree ==
    <<Node("source_file", TRUE, 0, 10, 0, <<2>>),
      Node("function_item", TRUE, 0, 10, 1, <<3, 4, 5>>),
      Node("fn", FALSE, 0, 1, 2, <<>>),
      Node("identifier", TRUE, 2, 3, 2, <<>>),
      Node("block", TRUE, 3, 10, 2, <<>>)>>

\* struct T, two columns wide
SmallSource == <<"s", "T">>

SmallTree ==
    <<Node("source_file", TRUE, 0, 2, 0, <<2>>),
      Node("struct_item", TRUE, 0, 2, 1, <<3, 4>>),
      Node("struct", FALSE, 0, 1, 2, <<>>),
      Node("type_identifier", TRUE, 1, 2, 2, <<>>)>>

\* a file that is one block comment
CommentSource == <<"/", "*", "a", "*", "/", "\n">>

CommentTree ==
    <<Node("source_file", TRUE, 0, 6, 0, <<2>>),
      Node("block_comment", TRUE, 0, 5, 1, <<>>)>>

ParsedFiles ==
    {<<ImplSource, ImplTree>>, <<FnSource, FnTree>>, <<SmallSource, SmallTree>>,
     <<CommentSource, CommentTree>>}

(***************************************************************************)
(* add_chunk_context called on its own: any node of a tree, any parent or  *)
(* none, and a source that may be shorter than the tree's byte ranges.     *)
(***************************************************************************)
\* const f=x=>1 : an arrow function, the value of a declarator named f
ArrowSource == <<"c", " ", "f", "=", "x", "=", ">", "1">>

ArrowTree ==
    <<Node("program", TRUE, 0, 8, 0, <<2>>),
      Node("lexical_declaration", TRUE, 0, 8, 1, <<3, 4>>),
      Node("const", FALSE, 0, 1, 2, <<>>),
      Node("variable_declarator", TRUE, 2, 8, 2, <<5, 6, 7>>),
      Node("identifier", TRUE, 2, 3, 4, <<>>),
      Node("=", FALSE, 3, 4, 4, <<>>),
      Node("arrow_function", TRUE, 4, 8, 4, <<8, 9, 10>>),
      Node("identifier", TRUE, 4, 5, 7, <<>>),
      Node("=>", FALSE, 5, 7, 7, <<>>),
      Node("number", TRUE, 7, 8, 7, <<>>)>>

\* struct T{x:T} : a field declaration with two children of a name kind
FieldSource == <<"s", " ", "T", "{", "x", ":", "T", "}">>

FieldTree ==
    <<Node("source_file", TRUE, 0, 8, 0, <<2>>),
      Node("struct_item", TRUE, 0, 8, 1, <<3, 4, 5>>),
      Node("struct", FALSE, 0, 1, 2, <<>>),
      Node("type_identifier", TRUE, 2, 3, 2, <<>>),
      Node("field_declaration_list", TRUE, 3, 8, 2, <<6, 7, 8>>),
      Node("{", FALSE, 3, 4, 5, <<>>),
      Node("field_declaration", TRUE, 4, 7, 5, <<9, 10, 11>>),
      Node("}", FALSE, 7, 8, 5, <<>>),
      Node("field_identifier", TRUE, 4, 5, 7, <<>>),
      Node(":", FALSE, 5, 6, 7, <<>>),
      Node("type_identifier", TRUE, 6, 7, 7, <<>>)>>

AnnotatedFiles ==
    {<<ImplSource, ImplTree>>, <<ArrowSource, ArrowTree>>, <<FieldSource, FieldTree>>}

ContextInit ==
    /\ pc = "context_entry"
    /\ caller = "direct"
    /\ overflow_checks = TRUE
    /\ \E f \in AnnotatedFiles :
          /\ tree = f[2]
          /\ \E len \in 0..Len(f[1]) : source = SubSeq(f[1], 1, len)
    /\ annotated_node \in 1..Len(tree)
    /\ annotated_parent \in 0..Len(tree)
    /\ chunk = CodeChunk(<<"x", "\n">>, <<tree[annotated_node].kind>>, 2, 3,
                         FilePath, LanguageName)
    /\ annotated = NoChunk
    /\ max_size = 0
    /\ overlap_percentage = 0
    /\ SplitIdle
    /\ ExtractIdle
    /\ SectionIdle
    /\ PreIdle
    /\ StorageIdle

\* add_chunk_context(&mut chunk, node, source, parent_node)
AddChunkContext ==
    /\ pc = "context_entry"
    /\ annotated' = add_chunk_context(chunk, tree, annotated_node, source, annotated_parent)
    /\ pc' = "context_return"
    /\ UNCHANGED <<caller, configVars, splitVars, extractVars, sectionVars, preVars,
                   annotated_node, annotated_parent, storageVars>>

ContextNext == AddChunkContext

ContextSpec == ContextInit /\ [][ContextNext]_vars

\* Files without syntactic units, for the section tier: LeadLines code
\* lines, then at most MaxFreeLines lines of any kind, then TailLines code
\* lines; TailLong lines make a section reach 100 lines.
MaxFreeLines == 3
TailLong == 103

LineKinds == {<<>>, <<"a">>, <<"/", "*">>, <<"*", "/">>}
LeadLines == {0, 4, 5}

\* the text of `count` code lines, each ended by a line feed
CodeText(count) == [k \in 1..(2 * count) |-> IF k % 2 = 1 THEN "a" ELSE "\n"]

\* the text of lines, each ended by a line feed
RECURSIVE TextOf(_)
TextOf(ls) == IF ls = <<>> THEN <<>> ELSE Head(ls) \o <<"\n">> \o TextOf(Tail(ls))

PlainSources(tails) ==
    {CodeText(lead) \o TextOf(free) \o CodeText(tail) :
        lead \in LeadLines, free \in SeqsUpTo(LineKinds, MaxFreeLines), tail \in tails}

\* Files whose free lines come after LeadLong code lines, where a section
\* has reached 100 lines
LeadLong == 100

LongLeadSources ==
    {CodeText(LeadLong) \o TextOf(free) \o CodeText(tail) :
        free \in SeqsUpTo(LineKinds, MaxFreeLines), tail \in {0, 2}}

SmallChunkSize == 3

ExtractStart ==
    /\ pc = "extract_entry"
    /\ caller = "direct"
    /\ \/ /\ \E f \in ParsedFiles : source = f[1] /\ tree = f[2]
          /\ max_size \in {SmallChunkSize, DEFAULT_MAX_CHUNK_SIZE}
          /\ overlap_percentage \in {0, DEFAULT_OVERLAP_PERCENTAGE, 50, 100}
          /\ overflow_checks \in BOOLEAN
       \/ /\ source \in PlainSources({0})
          /\ tree = TrivialTree(source)
          /\ max_size \in {SmallChunkSize, DEFAULT_MAX_CHUNK_SIZE}
          /\ overlap_percentage \in {0, DEFAULT_OVERLAP_PERCENTAGE, 50, 100}
          /\ overflow_checks \in BOOLEAN
       \/ /\ source \in PlainSources({TailLong}) \cup LongLeadSources
          /\ tree = TrivialTree(source)
          /\ max_size = DEFAULT_MAX_CHUNK_SIZE
          /\ overlap_percentage = DEFAULT_OVERLAP_PERCENTAGE
          /\ overflow_checks = TRUE
    /\ chunk = NoChunk
    /\ SplitIdle
    /\ ExtractIdle
    /\ SectionIdle
    /\ PreIdle
    /\ ContextIdle

ExtractInit == ExtractStart /\ StorageIdle

ExtractNext ==
    \/ StructuredTier \/ StructuredQueryFails
    \/ GeneralSkipped \/ GeneralTier
    \/ SectionBegin \/ SectionLine \/ SectionEnd
    \/ WholeFile
    \/ KeepChunk \/ CallSplit \/ ExtendWithSplit \/ ExtractReturn
    \/ SplitBegin \/ SplitIterate \/ SplitExit

ExtractSpec == ExtractInit /\ [][ExtractNext]_vars

(***************************************************************************)
(* A scan of one file (scanner.rs, scan_codebase): extract_chunks, then    *)
(* store_chunks on the chunks it returned, with one embedding for a chunk  *)
(* unless the embedding client answers with another number of them.        *)
(*   pc = "stored"         store_chunks has returned Ok                    *)
(*   pc = "store_failed"   store_chunks has returned the count mismatch    *)
(***************************************************************************)
\* lines 135-140: the key that is hashed, "<path>:<node_type>"; the hasher is
\* taken to give different keys different numbers
chunk_id(c) == <<c.path, ":">> \o c.node_type

\* lines 114-148: the point made of a chunk
PointOf(c) == [id |-> chunk_id(c), payload |-> c]

\* lines 99-108: the ids the scroll finds
ExistingIds(collection) == {p.id : p \in collection}

\* lines 159-170: the points left when the stale ids are deleted
WithoutStale(collection, stale) == {p \in collection : p.id \notin stale}

\* lines 151-156: the collections an upsert of the points of cs can leave:
\* one point for an id, with the payload of one of the chunks of that id
Upserted(collection, cs) ==
    LET ids == {chunk_id(cs[n]) : n \in 1..Len(cs)}
        kept == {p \in collection : p.id \notin ids}
    IN  {kept \cup {PointOf(cs[pick[id]]) : id \in ids} :
            pick \in {f \in [ids -> 1..Len(cs)] :
                         \A id \in ids : chunk_id(cs[f[id]]) = id}}

\* a chunk stored by an earlier scan, of a file that is gone since
StaleChunk == CodeChunk(<<"x">>, <<"file">>, 0, 1, "old.rs", LanguageName)

\* a chunk stored by an earlier scan of the file scanned now
EarlierChunk == CodeChunk(<<"x">>, <<"section">>, 0, 1, FilePath, LanguageName)

StoredBefore == {{}, {PointOf(StaleChunk)}, {PointOf(StaleChunk), PointOf(EarlierChunk)}}

ScanInit == ExtractStart /\ points \in StoredBefore

StoreChunks ==
    /\ pc = "done"
    /\ \E embeddings_len \in {Len(final_chunks), Len(final_chunks) + 1} :
          IF Len(final_chunks) # embeddings_len
          THEN /\ pc' = "store_failed"
               /\ points' = points
          ELSE /\ pc' = "stored"
               /\ LET seen == {chunk_id(final_chunks[n]) : n \in 1..Len(final_chunks)}
                      existing_ids == ExistingIds(points) \ seen
                  IN  \E upserted \in Upserted(points, final_chunks) :
                         points' = WithoutStale(upserted, existing_ids)
    /\ UNCHANGED <<caller, configVars, splitVars, extractVars, sectionVars, preVars,
                   contextVars>>

ScanNext == ExtractNext \/ StoreChunks

ScanSpec == ScanInit /\ [][ScanNext]_vars

\* Both entry points of the crate: split_large_chunk called on its own and
\* extract_chunks, which calls it
Init == SplitInit \/ ExtractInit

Next == SplitNext \/ ExtractNext

Spec == Init /\ [][Next]_vars

(***************************************************************************)
(* Claims about the splitter.                                              *)
(***************************************************************************)
Oversized == Len(chunk.content) > max_size

ChunksOf(cs) == {cs[n] : n \in 1..Len(cs)}

SplitStopped == pc \in {"split_return", "panic", "abort"}

RECURSIVE Concat(_)
Concat(cs) == IF cs = <<>> THEN <<>> ELSE Head(cs).content \o Concat(Tail(cs))

\* C1: for content.len() > max_size, max_size >= 1 and overlap_percentage in
\* 0..100 the splitting loop terminates. The loop body is a function of
\* current_pos alone (content, max_size and the sizes are fixed), so an
\* iteration that stays in the loop must move current_pos: one that leaves
\* it where it was is repeated forever.
C1_SplitTerminates ==
    [][(Oversized /\ max_size >= 1 /\ overlap_percentage <= 100
            /\ SplitIterate /\ pc' = "split_loop")
        => current_pos' # current_pos]_vars

\* C2: every fragment pushed for an oversized chunk has content.len() <=
\* max_size, and so has every chunk of the list extract_chunks builds.
C2_FragmentsFit ==
    /\ Oversized =>
          \A n \in 1..Len(split_chunks) : Len(split_chunks[n].content) <= max_size
    /\ \A n \in 1..Len(final_chunks) : Len(final_chunks[n].content) <= max_size

C2_Witness ==
    /\ Oversized
    /\ Len(split_chunks) >= 2
    /\ \E n \in 1..Len(split_chunks) : Len(split_chunks[n].content) = max_size

\* a list returned by extract_chunks that holds a fragment and a kept chunk
C2_WitnessExtract ==
    /\ pc = "done"
    /\ Oversized
    /\ \E n \in 1..Len(final_chunks) : final_chunks[n] = split_chunks[1]
    /\ \E n \in 1..Len(final_chunks) :
           /\ final_chunks[n] \in ChunksOf(chunks)
           /\ Len(final_chunks[n].content) >= 1

\* C3: with overlap_percentage = 0, once the split of an oversized chunk has
\* stopped its fragments' byte ranges are contiguous from 0 and their
\* contents concatenate to the original content.
C3_Reconstructs ==
    (caller = "direct" /\ Oversized /\ overlap_percentage = 0 /\ SplitStopped) =>
        /\ Len(ranges) >= 1
        /\ ranges[1][1] = 0
        /\ \A n \in 1..(Len(ranges) - 1) : ranges[n + 1][1] = ranges[n][2]
        /\ Concat(split_chunks) = chunk.content

\* C4: a chunk with content.len() <= max_size is returned alone and unchanged.
C4_SmallUnchanged ==
    (caller = "direct" /\ pc = "split_return" /\ Len(chunk.content) <= max_size)
        => split_chunks = <<chunk>>

C4_Witness ==
    /\ caller = "direct"
    /\ pc = "split_return"
    /\ Len(chunk.content) = max_size
    /\ overlap_percentage = 100
    /\ chunk.start_line > 0
    /\ split_chunks = <<chunk>>

\* C6: start_line never decreases from one fragment to the next
\* (overlap_percentage in 0..100).
C6_StartLineMonotone ==
    (Oversized /\ overlap_percentage <= 100) =>
        \A n \in 1..(Len(split_chunks) - 1) :
            split_chunks[n].start_line <= split_chunks[n + 1].start_line

C6_Witness ==
    /\ Oversized
    /\ overlap_percentage > 0
    /\ \E n \in 1..(Len(split_chunks) - 1) :
           split_chunks[n].start_line < split_chunks[n + 1].start_line

\* C7: each fragment after the first begins inside the previous fragment's
\* final max_size * overlap_percentage / 100 bytes.
C7_OverlapWindow ==
    Oversized =>
        \A n \in 1..(Len(ranges) - 1) :
            /\ ranges[n][2] - (max_size * overlap_percentage) \div 100 <= ranges[n + 1][1]
            /\ ranges[n + 1][1] <= ranges[n][2]

C7_Witness ==
    /\ Oversized
    /\ Len(ranges) >= 2
    /\ (max_size * overlap_percentage) \div 100 >= 2
    /\ ranges[2][1] > 0
    /\ ranges[2][1] < ranges[1][2]

\* C11: end_line is the last line the content covers: a section chunk ends
\* before the file's line count and on one of its own lines, and a fragment
\* of the splitter ends on a line that holds some of its content.
LinesCovered(content) ==
    count_lines(content)
        + (IF content # <<>> /\ content[Len(content)] # "\n" THEN 1 ELSE 0)

C11_EndLineInside ==
    /\ \A c \in ChunksOf(section_chunks) :
          /\ c.end_line < Len(lines)
          /\ c.end_line <= c.start_line + count_lines(c.content)
    /\ Oversized =>
          \A c \in ChunksOf(split_chunks) :
              c.content # <<>> => c.end_line < c.start_line + LinesCovered(c.content)

\* C12: the step max_size - overlap_size is computed without underflow and
\* is at least 1 in every iteration, for every overlap_percentage.
C12_StepAtLeastOne ==
    /\ pc = "split_loop" => (effective_chunk_size >= 1 /\ effective_chunk_size <= max_size)
    /\ ~(pc = "panic" /\ ranges = <<>> /\ overlap_size > max_size)

\* C13: after a cut that does not reach the end of the content
\* (overlap_percentage in 0..100) the next position is cut - overlap_size
\* computed without underflow: not before the previous position, not after
\* the cut.
C13_NextPosClamped ==
    [][(/\ pc = "split_loop"
        /\ Oversized
        /\ overlap_percentage <= 100
        /\ Len(ranges') = Len(ranges) + 1
        /\ ranges'[Len(ranges')][2] < Len(chunk.content))
       => (/\ pc' = "split_loop"
           /\ current_pos <= current_pos'
           /\ current_pos' <= ranges'[Len(ranges')][2])]_vars

\* C14: the cut of a fragment that starts at pos lies in the window from
\* pos + step to pos + max_size, both clamped to the content length
\* (overlap_percentage in 0..100).
C14_WindowMovesWithPos ==
    (Oversized /\ overlap_percentage <= 100) =>
        \A n \in 1..Len(ranges) :
            /\ Min(ranges[n][1] + effective_chunk_size, Len(chunk.content)) <= ranges[n][2]
            /\ ranges[n][2] <= Min(ranges[n][1] + max_size, Len(chunk.content))

\* C15: in its search range, from the clamped target to min(max_pos, len),
\* find_semantic_boundary cuts just after the first blank line if there is
\* one; otherwise just after the first newline; otherwise just after the
\* first `;`, else the first `}`, else the first `{`; otherwise just after
\* the first space: an earlier boundary of a lower rank does not win.
SearchFrom(n) ==
    Min(Min(ranges[n][1] + effective_chunk_size, Len(chunk.content)),
        Min(max_size, Len(chunk.content)))

SearchTo == Min(max_size, Len(chunk.content))

Occurrences(n, c) == {k \in (SearchFrom(n) + 1)..SearchTo : chunk.content[k] = c}

BlankLines(n) ==
    {k \in (SearchFrom(n) + 1)..(SearchTo - 1) :
        chunk.content[k] = "\n" /\ chunk.content[k + 1] = "\n"}

First(S) == CHOOSE k \in S : \A j \in S : k <= j

C15_BoundaryPriority ==
    (Oversized /\ overlap_percentage <= 100) =>
        \A n \in 1..Len(ranges) :
            LET cut == ranges[n][2]
            IN  IF BlankLines(n) # {} THEN cut = First(BlankLines(n)) + 1
                ELSE IF Occurrences(n, "\n") # {} THEN cut = First(Occurrences(n, "\n"))
                ELSE IF Occurrences(n, ";") # {} THEN cut = First(Occurrences(n, ";"))
                ELSE IF Occurrences(n, "}") # {} THEN cut = First(Occurrences(n, "}"))
                ELSE IF Occurrences(n, "{") # {} THEN cut = First(Occurrences(n, "{"))
                ELSE IF Occurrences(n, " ") # {} THEN cut = First(Occurrences(n, " "))
                ELSE TRUE

\* a cut after a `;` that a space and a `{` precede in the search range
C15_Witness ==
    /\ Oversized
    /\ Len(ranges) >= 1
    /\ Occurrences(1, ";") # {}
    /\ Occurrences(1, "{") # {}
    /\ Occurrences(1, " ") # {}
    /\ First(Occurrences(1, " ")) < First(Occurrences(1, "{"))
    /\ First(Occurrences(1, "{")) < First(Occurrences(1, ";"))
    /\ ranges[1][2] = First(Occurrences(1, ";"))

\* a cut after a blank line that a single newline precedes
C15_WitnessBlankLine ==
    /\ Oversized
    /\ Len(ranges) >= 1
    /\ BlankLines(1) # {}
    /\ First(Occurrences(1, "\n")) < First(BlankLines(1))
    /\ ranges[1][2] = First(BlankLines(1)) + 1

\* C16: when the window of a fragment that starts at pos, from pos + step to
\* pos + max_size (clamped to the content length), holds no boundary
\* character, the cut is the window's end (stated for a step of at least 1).
BoundaryChars == {"\n", ";", "}", "{", " "}

C16_HardCutAtWindowEnd ==
    (Oversized /\ overlap_percentage <= 100 /\ effective_chunk_size >= 1) =>
        \A n \in 1..Len(ranges) :
            LET len == Len(chunk.content)
                from == Min(ranges[n][1] + effective_chunk_size, len)
                to == Min(ranges[n][1] + max_size, len)
            IN  (\A k \in (from + 1)..to : chunk.content[k] \notin BoundaryChars)
                    => ranges[n][2] = to

\* C17: the fragment for the range [pos, cut) holds the content's bytes
\* [pos, cut), the tag followed by _part, the path and language of the
\* chunk, start_line = the chunk's start_line plus the newlines before pos,
\* and end_line = start_line plus the newlines of the fragment.
C17_FragmentFields ==
    Oversized =>
        /\ Len(split_chunks) = Len(ranges)
        /\ \A n \in 1..Len(ranges) :
              LET pos == ranges[n][1]
                  cut == ranges[n][2]
                  f == split_chunks[n]
              IN  /\ Len(f.content) = cut - pos
                  /\ \A k \in 1..(cut - pos) : f.content[k] = chunk.content[pos + k]
                  /\ f.node_type = Append(chunk.node_type, "_part")
                  /\ f.path = chunk.path
                  /\ f.language = chunk.language
                  /\ f.start_line = chunk.start_line
                        + Cardinality({k \in 1..pos : chunk.content[k] = "\n"})
                  /\ f.end_line = f.start_line
                        + Cardinality({k \in (pos + 1)..cut : chunk.content[k] = "\n"})

C17_Witness ==
    /\ Oversized
    /\ chunk.start_line > 0
    /\ Len(split_chunks) >= 2
    /\ split_chunks[2].start_line > chunk.start_line
    /\ split_chunks[2].end_line > split_chunks[2].start_line
    /\ split_chunks[2].node_type = <<"function_item", "_part">>

\* C23: for overlap_percentage in 0..100 the fragments a split returns
\* cover the content: the first starts at byte 0, each later one starts at
\* or before the cut of the one before, and the last ends at content.len().
C23_FragmentsCover ==
    (caller = "direct" /\ pc = "split_return" /\ Oversized /\ overlap_percentage <= 100) =>
        /\ Len(ranges) >= 1
        /\ ranges[1][1] = 0
        /\ \A n \in 1..(Len(ranges) - 1) : ranges[n + 1][1] <= ranges[n][2]
        /\ ranges[Len(ranges)][2] = Len(chunk.content)
        /\ \A k \in 1..Len(chunk.content) :
              \E n \in 1..Len(ranges) : ranges[n][1] < k /\ k <= ranges[n][2]

(***************************************************************************)
(* Claims about the preprocessor.                                          *)
(***************************************************************************)
\* C9: the whitespace normalization of the preprocessor applied to the
\* preprocessor's own output returns that output unchanged.
C9_Idempotent == pc = "pre_again" => again = result

C9_Witness ==
    /\ pc = "pre_again"
    /\ Len(result) >= 2
    /\ Len(result) < Len(source)
    /\ \E k \in 1..Len(result) : result[k] = " "
    /\ again = result

\* the characters of text at the positions of keep, in order
KeepAt(text, keep) ==
    [j \in 1..Cardinality(keep) |->
        text[CHOOSE k \in keep : Cardinality({m \in keep : m < k}) = j - 1]]

\* every maximal run of spaces replaced by one space
CollapseRuns(text) ==
    KeepAt(text, {k \in 1..Len(text) : ~(text[k] = " " /\ k > 1 /\ text[k - 1] = " ")})

\* as CollapseRuns, and the run of spaces at the start of the text removed
CollapseRunsDropLeading(text) ==
    KeepAt(text, {k \in 1..Len(text) : ~(text[k] = " " /\ (k = 1 \/ text[k - 1] = " "))})

NoTwoSpaces(text) == \A k \in 1..(Len(text) - 1) : ~(text[k] = " " /\ text[k + 1] = " ")

\* C22 as claimed: the normalization of a leaf's text replaces every maximal
\* run of spaces, wherever it is, by one space and keeps every other
\* character in place and in order.
C22_RunsBecomeOneSpace ==
    (pc = "pre_return" /\ tree = TrivialTree(source)) => result = CollapseRuns(source)

\* C22 amended: the normalization of a leaf's text removes the run of spaces
\* at the start of the text, replaces every other maximal run of spaces by
\* one space and keeps every other character in place and in order; the
\* output has the newlines of the input and no two adjacent spaces.
C22_RunsBecomeOneSpaceButLeading ==
    (pc = "pre_return" /\ tree = TrivialTree(source)) =>
        /\ result = CollapseRunsDropLeading(source)
        /\ count_lines(result) = count_lines(source)
        /\ NoTwoSpaces(result)

\* spaces at the start are removed and a later run is one space
C22_Witness ==
    /\ pc = "pre_return"
    /\ tree = TrivialTree(source)
    /\ source = <<" ", "a", " ", " ">>
    /\ result = <<"a", " ">>

(***************************************************************************)
(* Claims about the chunk extractor.                                       *)
(***************************************************************************)
\* C5: the list extract_chunks returns holds at least one chunk when the
\* source is not empty, whichever tiers ran and whatever they found, and is
\* empty when the source is empty.
C5_WholeFileFallback ==
    /\ (pc \in {"split_phase", "done"} /\ source # <<>>) => chunks # <<>>
    /\ (pc = "done" /\ source # <<>>) => Len(final_chunks) >= 1
    /\ (pc = "done" /\ source = <<>>) => final_chunks = <<>>

C5_Witness ==
    /\ pc = "done"
    /\ source # <<>>
    /\ captures = <<>>
    /\ section_chunks = <<>>
    /\ Len(final_chunks) = 1
    /\ final_chunks[1].node_type = <<"file">>

C5_WitnessEmpty == pc = "done" /\ source = <<>> /\ final_chunks = <<>>

\* C8: after the structured tier, a container (impl_item or trait_item)
\* whose members were captured has a chunk of its own in the tier's result,
\* next to the chunks of the captured members.
C8_ContainerAndMembers ==
    pc = "general" =>
        \A k \in 1..Len(tree) :
            (/\ tree[k].kind \in {"impl_item", "trait_item"}
             /\ \E m \in ChunksOf(captures) : m # k /\ InSubtree(tree, k, m))
            => /\ \E c \in ChunksOf(chunks) : c.node_type[1] = tree[k].kind
               /\ \A m \in ChunksOf(captures) :
                      InSubtree(tree, k, m) =>
                          StructuredChunk(tree, m, source) \in ChunksOf(chunks)

\* C10: every chunk of every tier and every fragment of the splitter has
\* end_line >= start_line.
C10_EndNotBeforeStart ==
    \A c \in ChunksOf(chunks) \cup ChunksOf(section_chunks)
              \cup ChunksOf(final_chunks) \cup ChunksOf(split_chunks) :
        c.end_line >= c.start_line

C10_Witness ==
    /\ pc = "done"
    /\ \E c \in ChunksOf(final_chunks) :
           c.node_type = <<"section">> /\ c.start_line > 0 /\ c.end_line > c.start_line
    /\ \E c \in ChunksOf(final_chunks) :
           c.node_type = <<"section", "_part">> /\ c.end_line >= c.start_line

\* C18: the tiers run in the order structured, generic, section, whole
\* file and stop at the first that yields chunks: a failed structured query
\* is an empty result, not an error; the generic or section tier runs only
\* on an empty `chunks`; the section tier never follows a generic tier that
\* ran; the file chunk is pushed only onto an empty `chunks`; the chunks
\* handed to the splitter come from one tier and stay as they are.
TierKinds == {CapturedKinds, GeneralKinds, {"section"}, {"file"}}

SingleTier == \E T \in TierKinds : \A c \in ChunksOf(chunks) : c.node_type[1] \in T

C18_TierOrder ==
    [][/\ pc = "extract_entry" => pc' = "general"
       /\ (pc = "general" /\ (chunks' # chunks \/ pc' = "section_loop")) => chunks = <<>>
       /\ (pc' = "section_loop" /\ pc # "section_loop") => (pc = "general" /\ chunks = <<>>)
       /\ (pc = "section_loop" /\ chunks' # chunks) => chunks' = section_chunks'
       /\ (pc = "whole_file" /\ chunks' # chunks) =>
              (/\ chunks = <<>>
               /\ Len(chunks') = 1
               /\ chunks'[1].node_type = <<"file">>)
       /\ pc \in {"split_phase", "split_entry", "split_loop", "split_return", "done"}
              => chunks' = chunks
       /\ SingleTier']_vars

\* the structured tier found the function and no later tier ran, though the
\* generic tier would have found its block
C18_Witness ==
    /\ pc = "done"
    /\ tree = FnTree
    /\ captures # <<>>
    /\ Len(chunks) >= 1
    /\ \A c \in ChunksOf(chunks) : c.node_type[1] = "function_item"
    /\ lines = <<>>
    /\ final_chunks = chunks

\* C19: a section that has reached 100 lines is closed at the line being
\* scanned, whatever that line holds: the scan never stands more than 100
\* lines after the section's start, and no section chunk holds more than
\* 100 lines.
C19_HundredLineRule ==
    /\ pc = "section_loop" => i - section_start <= 100
    /\ \A c \in ChunksOf(section_chunks) : count_lines(c.content) + 1 <= 100

\* C20: a boundary made by blank lines is made only at the second of two
\* blank lines outside a block comment, with more than 5 lines in the
\* section; a blank line between a line that starts a block comment and the
\* next line that ends one adds nothing to the count; the count is 0 after a
\* line that is not blank and after every boundary.
LineIsBlank(k) == Trim(lines[k + 1]) = <<>>

\* line k lies in a block comment: a line at or before it starts with /*
\* and no line from there to the one before k ends with */
InBlockComment(k) ==
    \E j \in 0..k :
        /\ StartsWith(Trim(lines[j + 1]), <<"/", "*">>)
        /\ \A m \in j..(k - 1) : ~EndsWith(Trim(lines[m + 1]), <<"*", "/">>)

C20_BlankLineRule ==
    [][(pc = "section_loop" /\ i' = i + 1) =>
          /\ (section_start' # section_start /\ i - section_start < 100) =>
                 (/\ i - section_start > 5
                  /\ i >= 1
                  /\ LineIsBlank(i) /\ ~InBlockComment(i)
                  /\ LineIsBlank(i - 1) /\ ~InBlockComment(i - 1))
          /\ blank_line_count' > blank_line_count =>
                 (LineIsBlank(i) /\ ~InBlockComment(i))
          /\ (LineIsBlank(i) /\ InBlockComment(i)) => blank_line_count' = 0
          /\ ~LineIsBlank(i) => blank_line_count' = 0
          /\ section_start' # section_start => blank_line_count' = 0]_vars

\* a boundary has just been made at the second blank line after six code
\* lines or more, and blank lines inside a comment were passed before
C20_Witness ==
    /\ pc = "section_loop"
    /\ i = section_start
    /\ section_start >= 7
    /\ section_start < 100
    /\ blank_line_count = 0
    /\ LineIsBlank(i - 1) /\ LineIsBlank(i - 2)
    /\ Len(section_chunks) >= 1

\* a blank line inside a block comment has been scanned and not counted
C20_WitnessComment ==
    /\ pc = "section_loop"
    /\ i >= 2
    /\ LineIsBlank(i - 1)
    /\ InBlockComment(i - 1)
    /\ in_comment_block
    /\ blank_line_count = 0

\* the lines a section chunk holds: start_line and the lines joined after it
SectionHolds(c, k) == c.start_line <= k /\ k <= c.start_line + count_lines(c.content)

\* C24: when the section tier has run, every line of the source that is not
\* blank is held by exactly one section chunk, the line at which a boundary
\* was made included, and the sections' line ranges are disjoint and in
\* increasing order.
C24_SectionsLoseNothing ==
    (pc = "whole_file" /\ lines # <<>>) =>
        /\ \A k \in 0..(Len(lines) - 1) :
              Trim(lines[k + 1]) # <<>> =>
                  Cardinality({n \in 1..Len(section_chunks) :
                                  SectionHolds(section_chunks[n], k)}) = 1
        /\ \A n \in 1..(Len(section_chunks) - 1) :
              section_chunks[n].start_line + count_lines(section_chunks[n].content)
                  < section_chunks[n + 1].start_line

\* C25: the chunks of one scan that differ have different point ids, so that
\* after store_chunks the collection holds as many points as there were
\* chunks; fragments of one chunk and the section chunks of one file included.
C25_DistinctIdentities ==
    (pc = "stored") =>
        /\ \A m, n \in 1..Len(final_chunks) :
              final_chunks[m] # final_chunks[n] =>
                  chunk_id(final_chunks[m]) # chunk_id(final_chunks[n])
        /\ Cardinality(points) = Cardinality(ChunksOf(final_chunks))

(***************************************************************************)
(* Claims about the context annotator.                                     *)
(***************************************************************************)
\* child k of node n is a named child of a name kind
NameChildAt(n, k) ==
    /\ tree[tree[n].children[k]].named
    /\ KindIsName(tree[tree[n].children[k]].kind)

\* m is the name node of n: its first named child of a name kind, 0 when
\* n is no node or has none
IsNameOf(n, m) ==
    IF n = 0 \/ \A k \in 1..Len(tree[n].children) : ~NameChildAt(n, k)
    THEN m = 0
    ELSE \E k \in 1..Len(tree[n].children) :
            /\ m = tree[n].children[k]
            /\ NameChildAt(n, k)
            /\ \A j \in 1..(k - 1) : ~NameChildAt(n, j)

Resolvable(m) == m # 0 /\ tree[m].end_byte <= Len(source)

NameText(m) == SubSeq(source, tree[m].start_byte + 1, tree[m].end_byte)

\* C21: add_chunk_context appends `:<name>` to the tag for the first named
\* child of a name kind, prepends `// In <parent kind>: <parent name>` and a
\* newline to the content for a parent with such a child, leaves the field
\* as it is when there is no such child or its text lies outside the
\* source, and never changes start_line, end_line, path and language.
C21_ContextBestEffort ==
    pc = "context_return" =>
        /\ annotated.start_line = chunk.start_line
        /\ annotated.end_line = chunk.end_line
        /\ annotated.path = chunk.path
        /\ annotated.language = chunk.language
        /\ \A m \in 0..Len(tree) :
              IsNameOf(annotated_node, m) =>
                  annotated.node_type =
                      IF Resolvable(m)
                      THEN chunk.node_type \o <<":">> \o NameText(m)
                      ELSE chunk.node_type
        /\ \A m \in 0..Len(tree) :
              IsNameOf(annotated_parent, m) =>
                  annotated.content =
                      IF Resolvable(m)
                      THEN <<"/", "/", " ", "I", "n", " ">>
                           \o KindText(tree[annotated_parent].kind)
                           \o <<":", " ">> \o NameText(m) \o <<"\n">> \o chunk.content
                      ELSE chunk.content

\* the arrow function under the declarator f: both fields are annotated
C21_Witness ==
    /\ pc = "context_return"
    /\ tree = ArrowTree
    /\ annotated_node = 7
    /\ annotated_parent = 4
    /\ annotated.node_type = <<"arrow_function", ":", "x">>
    /\ Len(annotated.content) > Len(chunk.content)
    /\ annotated.content[Len(annotated.content) - Len(chunk.content)] = "\n"

\* a name node beyond the end of the source: the tag is left as it is
C21_WitnessOutside ==
    /\ pc = "context_return"
    /\ \E m \in 1..Len(tree) : IsNameOf(annotated_node, m) /\ ~Resolvable(m)
    /\ annotated.node_type = chunk.node_type

====
